---- MODULE Spec2Model ----
(***************************************************************************)
(* A model of aiger/common.py: the gate constructors (and_gate, or_gate,   *)
(* parity_gate, identity, bit_flipper, ite, delay) and the evaluation      *)
(* order engine (_dependency_graph, dfs, topsort, eval_order).             *)
(***************************************************************************)
EXTENDS Integers, Sequences, FiniteSets, TLC

\* Bound: number of node identities of a circuit / of a dependency map.
NumNodes == 3

Nodes == 1..NumNodes

VARIABLES
    pc,               \* position of the running call
    fn,               \* the function that was called
    \* ---- the circuit handed to dfs / eval_order
    children,         \* node -> tuple of its operand nodes (Node.children)
    cones,            \* root nodes of node_map
    latch_cones,      \* root nodes of latch_map
    \* ---- _dependency_graph
    dg_queue,         \* queue (a list used as a stack)
    deps,             \* defaultdict(set)
    deps_order,       \* insertion order of the keys of deps
    visited,
    expanded,         \* ghost: how often each node passed the visited check
    \* ---- dfs
    stack, emitted, dfs_out,
    \* ---- topsort
    data,             \* node -> set of dependencies
    data_t,           \* transposed graph: dependency -> list of dependents
    in_deg, ts_queue, yielded,
    \* ---- the gate constructors
    call,             \* the constructor called and its arguments
    env,              \* a Boolean assignment to the inputs of the circuit
    ret,              \* what the call returned (or that it raised)
    latch_val,        \* simulation: the value each latch holds
    trace_in,         \* simulation: the inputs fed at steps 0, 1, ...
    trace_out         \* simulation: the outputs observed at steps 0, 1, ...

gate_vars == <<call, env, ret, latch_val, trace_in, trace_out>>
\* what no traversal step changes: the circuit, and the gate constructors' state
order_vars == <<children, cones, latch_cones, gate_vars>>
dg_vars == <<dg_queue, deps, deps_order, visited, expanded>>
dfs_vars == <<stack, emitted, dfs_out>>
ts_vars == <<data, data_t, in_deg, ts_queue, yielded>>
vars == <<pc, fn, order_vars, dg_vars, dfs_vars, ts_vars>>

\* ------------------------------------------------------------------ helpers

Range(s) == {s[i] : i \in DOMAIN s}

\* the sequences that hold every element of S once
RECURSIVE AllOrders(_)
AllOrders(S) == IF S = {} THEN {<<>>}
                ELSE UNION {{<<x>> \o p : p \in AllOrders(S \ {x})} : x \in S}

\* the orders of 1..k, for the sizes a set of nodes can have
IndexOrders == [k \in 0..NumNodes |-> AllOrders(1..k)]

\* the elements of S in some order
RECURSIVE Enum(_)
Enum(S) == IF S = {} THEN <<>>
           ELSE LET x == CHOOSE y \in S : TRUE IN <<x>> \o Enum(S \ {x})

\* Every order in which a Python set (or frozenset) of nodes can be iterated.
Perms(S) ==
    LET e == Enum(S)
    IN {[i \in 1..Len(e) |-> e[p[i]]] : p \in IndexOrders[Len(e)]}

NoDup(s) == \A i, j \in DOMAIN s : i # j => s[i] # s[j]

\* list.pop(): the last element, and the list without it
Last(s) == s[Len(s)]
Front(s) == SubSeq(s, 1, Len(s) - 1)

\* ------------------------------------------------------------- Node model

\* Node.id, and AIG.get_node(id): the content identity of a node and back.
id_of(n) == <<"id", n>>
get_node(key) == key[2]

\* AIG.cones_set / AIG.latch_cones_set: the identities of the root nodes
cones_set == {id_of(n) : n \in cones}
latch_cones_set == {id_of(n) : n \in latch_cones}

\* The tuples of operands a node with identity n can have: none (Input,
\* LatchIn, ConstFalse), one (Inverter), two (AndGate).  A node is built from
\* nodes that exist already.
ChildTuples(n) ==
    {<<>>} \cup {<<c>> : c \in 1..(n - 1)}
           \cup {<<l, r>> : l \in 1..(n - 1), r \in 1..(n - 1)}

Circuits == {ch \in [Nodes -> UNION {ChildTuples(n) : n \in Nodes}] :
                \A n \in Nodes : ch[n] \in ChildTuples(n)}

\* ------------------------------------------------------ _dependency_graph

\* eval_order: _dependency_graph(circ.cones | circ.latch_cones);
\* queue, deps, visited = list(nodes), defaultdict(set), set()
EvalOrderCall ==
    /\ pc = "call" /\ fn = "eval_order"
    /\ \E q \in Perms(cones \cup latch_cones) : dg_queue' = q
    /\ deps' = <<>>
    /\ deps_order' = <<>>
    /\ visited' = {}
    /\ expanded' = [n \in Nodes |-> 0]
    /\ pc' = "dependency_graph"
    /\ UNCHANGED <<fn, order_vars, dfs_vars, ts_vars>>

\* A variant of DepsUpdate that touches deps only when there are children, so
\* that a leaf never becomes a key.
DepsUpdate_skip_leaf(d, node, ch) ==
    IF ch = <<>> THEN d
    ELSE [k \in DOMAIN d \cup {node} |->
            IF k = node
            THEN (IF node \in DOMAIN d THEN d[node] ELSE {}) \cup Range(ch)
            ELSE d[k]]

\* deps[node].update(children) on a defaultdict(set)
DepsUpdate(d, node, ch) ==
    [k \in DOMAIN d \cup {node} |->
        IF k = node
        THEN (IF node \in DOMAIN d THEN d[node] ELSE {}) \cup Range(ch)
        ELSE d[k]]

\* one iteration of `while queue:`
DepGraphStep ==
    /\ pc = "dependency_graph" /\ dg_queue # <<>>
    /\ LET node == Last(dg_queue)
           rest == Front(dg_queue)
       IN IF node \in visited
          THEN /\ dg_queue' = rest
               /\ UNCHANGED <<deps, deps_order, visited, expanded>>
          ELSE /\ visited' = visited \cup {node}
               /\ dg_queue' = rest \o children[node]
               /\ deps' = DepsUpdate(deps, node, children[node])
               /\ deps_order' = IF node \in DOMAIN deps THEN deps_order
                                ELSE Append(deps_order, node)
               /\ expanded' = [expanded EXCEPT ![node] = @ + 1]
    /\ UNCHANGED <<pc, fn, order_vars, dfs_vars, ts_vars>>

\* `return deps`, handed to topsort by eval_order
DepGraphReturn ==
    /\ pc = "dependency_graph" /\ dg_queue = <<>>
    /\ data' = deps
    /\ pc' = "topsort"
    /\ UNCHANGED <<fn, order_vars, dg_vars, dfs_vars, data_t, in_deg, ts_queue, yielded>>

\* ------------------------------------------------------------------ topsort

\* data_t[dep].append(node) for node, deps in data.items() for dep in deps:
\* the dependents of dep in the order of the keys of data
Transpose(d, keys) ==
    [dep \in UNION {d[k] : k \in DOMAIN d} |->
        LET HasDep(k) == dep \in d[k] IN SelectSeq(keys, HasDep)]

\* A variant of InDeg that counts only the dependencies that are keys of data.
InDeg_keys_only(d, nodes) ==
    [n \in nodes |-> IF n \in DOMAIN d THEN Cardinality(d[n] \cap DOMAIN d) ELSE 0]

\* in_deg = {node: len(data.get(node, ())) for node in nodes}
InDeg(d, nodes) ==
    [n \in nodes |-> IF n \in DOMAIN d THEN Cardinality(d[n]) ELSE 0]

\* A variant of ZeroInDegree without the test `if deg == 0`.
ZeroInDegree_all(deg, nodes) == nodes

\* the nodes the queue is seeded with: node for node, deg in in_deg.items() if deg == 0
ZeroInDegree(deg, nodes) == {n \in nodes : deg[n] = 0}

\* The lines of topsort before its loop.  keys is the order of data.items().
TopsortBuild(keys) ==
    /\ pc = "topsort"
    /\ data_t' = Transpose(data, keys)
    /\ LET nodes == DOMAIN data \cup DOMAIN data_t'
       IN /\ in_deg' = InDeg(data, nodes)
          /\ \E q \in Perms(ZeroInDegree(in_deg', nodes)) : ts_queue' = q
    /\ yielded' = <<>>
    /\ pc' = "topsort_loop"
    /\ UNCHANGED <<fn, order_vars, dg_vars, dfs_vars, data>>

\* for child in data_t.get(node, ()): in_deg[child] -= 1; append when 0.
\* Returns <<in_deg, queue>> after the for loop over cs.
RECURSIVE Release(_, _, _)
Release(cs, deg, q) ==
    IF cs = <<>> THEN <<deg, q>>
    ELSE LET child == Head(cs)
             deg1 == [deg EXCEPT ![child] = @ - 1]
         IN Release(Tail(cs), deg1,
                    IF deg1[child] = 0 THEN Append(q, child) ELSE q)

\* one iteration of `while queue:` of topsort
TopsortStep ==
    /\ pc = "topsort_loop" /\ ts_queue # <<>>
    /\ LET node == Head(ts_queue)
           dependents == IF node \in DOMAIN data_t THEN data_t[node] ELSE <<>>
           r == Release(dependents, in_deg, Tail(ts_queue))
       IN /\ yielded' = Append(yielded, node)
          /\ in_deg' = r[1]
          /\ ts_queue' = r[2]
    /\ UNCHANGED <<pc, fn, order_vars, dg_vars, dfs_vars, data, data_t>>

\* the queue is empty: the generator is exhausted
TopsortReturn ==
    /\ pc = "topsort_loop" /\ ts_queue = <<>>
    /\ pc' = "done"
    /\ UNCHANGED <<fn, order_vars, dg_vars, dfs_vars, ts_vars>>

\* ---------------------------------------------------------------------- dfs

\* A variant of dfs_cones that leaves the latch cones out.
dfs_cones_no_latches == cones_set

\* cones = circ.cones_set; if len(circ.latch_cones_set) > 0: cones = cones | ...
dfs_cones ==
    IF Cardinality(latch_cones_set) > 0
    THEN cones_set \cup latch_cones_set
    ELSE cones_set

\* stack = list(cones); emitted = set()
DfsCall ==
    /\ pc = "call" /\ fn = "dfs"
    /\ \E s \in Perms(dfs_cones) : stack' = s
    /\ emitted' = {}
    /\ dfs_out' = <<>>
    /\ pc' = "dfs"
    /\ UNCHANGED <<fn, order_vars, dg_vars, ts_vars>>

\* A variant of PendingChildren with the filter inverted (x.id in emitted).
PendingChildren_inverted(node, em) ==
    {id_of(children[node][i]) : i \in
        {j \in DOMAIN children[node] : id_of(children[node][j]) \in em}}

\* children = set(map(id, filter(lambda x: x.id not in emitted, ch)))
PendingChildren(node, em) ==
    {id_of(children[node][i]) : i \in
        {j \in DOMAIN children[node] : id_of(children[node][j]) \notin em}}

\* A variant of Repush that puts the node back without its children.
Repush_without_children(rest, key, p) == Append(rest, key)

\* stack.append(key); stack.extend(children), on the stack without its top;
\* p is the order in which the set children is iterated
Repush(rest, key, p) == Append(rest, key) \o p

\* one iteration of `while stack:` of dfs
DfsStep ==
    /\ pc = "dfs" /\ stack # <<>>
    /\ LET node == get_node(Last(stack))
           key == id_of(node)
           rest == Front(stack)
           pending == PendingChildren(node, emitted)
       IN IF key \in emitted
          THEN /\ stack' = rest
               /\ UNCHANGED <<emitted, dfs_out>>
          ELSE IF pending \subseteq emitted
          THEN /\ dfs_out' = Append(dfs_out, node)
               /\ emitted' = emitted \cup {key}
               /\ stack' = rest
          ELSE /\ \E p \in Perms(pending) : stack' = Repush(rest, key, p)
               /\ UNCHANGED <<emitted, dfs_out>>
    /\ UNCHANGED <<pc, fn, order_vars, dg_vars, ts_vars>>

DfsReturn ==
    /\ pc = "dfs" /\ stack = <<>>
    /\ pc' = "done"
    /\ UNCHANGED <<fn, order_vars, dg_vars, dfs_vars, ts_vars>>

\* no gate constructor is running
GatesIdle ==
    /\ call = <<>> /\ env = <<>> /\ ret = <<>>
    /\ latch_val = <<>> /\ trace_in = <<>> /\ trace_out = <<>>

\* ------------------------------------------------- specification: traversals

InitOrder ==
    /\ pc = "call"
    /\ fn \in {"dfs", "eval_order"}
    /\ children \in Circuits
    /\ cones \in SUBSET Nodes
    /\ latch_cones \in SUBSET Nodes
    /\ dg_queue = <<>> /\ deps = <<>> /\ deps_order = <<>> /\ visited = {}
    /\ expanded = [n \in Nodes |-> 0]
    /\ stack = <<>> /\ emitted = {} /\ dfs_out = <<>>
    /\ data = <<>> /\ data_t = <<>> /\ in_deg = <<>>
    /\ ts_queue = <<>> /\ yielded = <<>>
    /\ GatesIdle

NextOrder ==
    \/ EvalOrderCall
    \/ DepGraphStep
    \/ DepGraphReturn
    \/ TopsortBuild(deps_order)
    \/ TopsortStep
    \/ TopsortReturn
    \/ DfsCall
    \/ DfsStep
    \/ DfsReturn

SpecOrder == InitOrder /\ [][NextOrder]_vars

\* A call runs on without a pause: a step that can be taken is taken.
FairSpecOrder == SpecOrder /\ WF_vars(NextOrder)

\* dfs alone
InitDfs == InitOrder /\ fn = "dfs"

NextDfs ==
    \/ DfsCall
    \/ DfsStep
    \/ DfsReturn

SpecDfs == InitDfs /\ [][NextDfs]_vars

\* _dependency_graph alone, as eval_order calls it, up to its return
InitDependencyGraph == InitOrder /\ fn = "eval_order"

NextDependencyGraph ==
    \/ EvalOrderCall
    \/ DepGraphStep
    \/ DepGraphReturn

SpecDependencyGraph == InitDependencyGraph /\ [][NextDependencyGraph]_vars

\* ---------------------------------------------------- specification: topsort

\* The dependency maps handed to topsort directly: any node -> set of
\* dependencies, cyclic ones included.
DataMaps == UNION {[K -> SUBSET Nodes] : K \in SUBSET Nodes}

InitTopsort ==
    /\ pc = "topsort"
    /\ fn = "topsort"
    /\ data \in DataMaps
    /\ children = [n \in Nodes |-> <<>>]
    /\ cones = {} /\ latch_cones = {}
    /\ dg_queue = <<>> /\ deps = <<>> /\ deps_order = <<>> /\ visited = {}
    /\ expanded = [n \in Nodes |-> 0]
    /\ stack = <<>> /\ emitted = {} /\ dfs_out = <<>>
    /\ data_t = <<>> /\ in_deg = <<>>
    /\ ts_queue = <<>> /\ yielded = <<>>
    /\ GatesIdle

NextTopsort ==
    \/ \E keys \in Perms(DOMAIN data) : TopsortBuild(keys)
    \/ TopsortStep
    \/ TopsortReturn

SpecTopsort == InitTopsort /\ [][NextTopsort]_vars

\* The generator is run to its end: a step that can be taken is taken.
FairSpecTopsort == SpecTopsort /\ WF_vars(NextTopsort)

\* ================================================ properties: the traversals

\* the immediate children of a node, as a set
ChildSet(n) == Range(children[n])

\* the nodes reachable from the set S through children, S included
RECURSIVE Reach(_)
Reach(S) ==
    LET T == S \cup UNION {ChildSet(n) : n \in S}
    IN IF T = S THEN S ELSE Reach(T)

\* the roots of a circuit: its output cones and its latch next-state cones
Roots == cones \cup latch_cones

\* the position of x in the sequence s
Pos(s, x) == CHOOSE i \in DOMAIN s : s[i] = x

\* every element of s comes after all the elements the function R gives it
ComesAfter(s, R) ==
    \A i \in DOMAIN s : \A d \in R[s[i]] : \E j \in 1..(i - 1) : s[j] = d

\* ---- dependency maps
DepsOf(d, n) == IF n \in DOMAIN d THEN d[n] ELSE {}
GraphNodes(d) == DOMAIN d \cup UNION {d[k] : k \in DOMAIN d}

RECURSIVE DepClosure(_, _)
DepClosure(d, S) ==
    LET T == S \cup UNION {DepsOf(d, n) : n \in S}
    IN IF T = S THEN S ELSE DepClosure(d, T)

OnCycle(d, n) == n \in DepClosure(d, DepsOf(d, n))
Acyclic(d) == \A n \in GraphNodes(d) : ~OnCycle(d, n)
\* n lies on a cycle or transitively depends on a node that does
Tainted(d, n) == \E m \in DepClosure(d, {n}) : OnCycle(d, m)

DataDeps(n) == DepsOf(data, n)

\* C1: when topsort has run to its end on an acyclic dependency map, the
\* yielded sequence holds every node of the graph (every key and every node
\* that occurs only as a dependency) exactly once, and every dependency of a
\* node is yielded strictly before the node.
C1_TopsortValid ==
    (pc = "done" /\ fn = "topsort" /\ Acyclic(data)) =>
        /\ NoDup(yielded)
        /\ Range(yielded) = GraphNodes(data)
        /\ \A n \in DOMAIN data : \A d \in data[n] :
                Pos(yielded, d) < Pos(yielded, n)

\* an acyclic map with an edge to a node that is no key has been sorted
C1_Witness ==
    /\ pc = "done" /\ fn = "topsort" /\ Acyclic(data)
    /\ \E n \in DOMAIN data : \E d \in data[n] : d \notin DOMAIN data
    /\ Len(yielded) = NumNodes

C3_DependencyGraph ==
    /\ \A n \in Nodes : expanded[n] <= 1
    /\ (fn = "eval_order" /\ pc \in {"topsort", "topsort_loop", "done"}) =>
        /\ DOMAIN deps = Reach(Roots)
        /\ \A n \in DOMAIN deps : deps[n] = ChildSet(n)
        /\ \A n \in DOMAIN deps : expanded[n] = 1
        /\ data = deps

\* the map has been returned for a circuit with a leaf and a node that two
\* different reachable nodes have as a child
C3_Witness ==
    /\ fn = "eval_order" /\ pc = "topsort"
    /\ \E n \in DOMAIN deps : deps[n] = {}
    /\ \E c \in DOMAIN deps : \E p1, p2 \in DOMAIN deps :
            p1 # p2 /\ c \in deps[p1] /\ c \in deps[p2]

\* C8: when dfs, and when eval_order, has run to its end, its output holds
\* exactly the nodes reachable from the output cones and the latch cones,
\* each once; so the two outputs are permutations of each other.
C8_SameNodes ==
    /\ (pc = "done" /\ fn = "dfs") =>
            NoDup(dfs_out) /\ Range(dfs_out) = Reach(Roots)
    /\ (pc = "done" /\ fn = "eval_order") =>
            NoDup(yielded) /\ Range(yielded) = Reach(Roots)

\* dfs has finished on a circuit with a node that only a latch cone reaches
C8_Witness ==
    /\ pc = "done" /\ fn = "dfs"
    /\ cones # {}
    /\ \E n \in Reach(latch_cones) \ Reach(cones) : n \in Range(dfs_out)

\* C9: each traversal loop terminates: the call reaches its end, with the
\* work stack of _dependency_graph, the stack of dfs and the queue of topsort
\* empty.
C9_Terminates ==
    <>(pc = "done" /\ dg_queue = <<>> /\ stack = <<>> /\ ts_queue = <<>>)

\* the stack of dfs holds the same node twice
C9_Witness ==
    /\ pc = "dfs"
    /\ \E i, j \in DOMAIN stack : i # j /\ stack[i] = stack[j]

\* what C10 says of every state of topsort on a map with a cycle
CycleStarves ==
    (fn = "topsort" /\ ~Acyclic(data)) =>
        /\ \A n \in Range(yielded) : ~Tainted(data, n)
        /\ NoDup(yielded)
        /\ ComesAfter(yielded, [n \in Nodes |-> DataDeps(n)])
        /\ pc = "done" => Len(yielded) < Cardinality(GraphNodes(data))

\* C10: on a dependency map with a cycle topsort terminates; no node that
\* lies on a cycle or depends on one is ever yielded, so fewer nodes are
\* yielded than the graph has; the yielded nodes are yielded once each and
\* after all their dependencies.
C10_CycleStarves ==
    /\ []CycleStarves
    /\ ~Acyclic(data) => <>(pc = "done")

\* topsort has ended on a map with a self-dependency, having yielded a node
C10_Witness ==
    /\ pc = "done" /\ fn = "topsort"
    /\ \E n \in DOMAIN data : n \in data[n]
    /\ Len(yielded) >= 1

\* ======================================================== gate constructors

\* Bounds of the calls drawn.
MaxGateInputs == 6      \* and_gate, or_gate, parity_gate: 1..MaxGateInputs inputs
MaxIteWidth == 4        \* ite: lists of 0..MaxIteWidth names
MaxListLen == 2         \* identity, bit_flipper, delay: lists of 0..MaxListLen names
MaxSteps == 4           \* simulation steps of a delay circuit

Min(a, b) == IF a < b THEN a ELSE b

\* the names <<p1, ..., pn>>
Names(p, n) == [i \in 1..n |-> p \o ToString(i)]

\* an optional argument: <<>> is None, <<v>> is the value v
None == <<>>
Some(v) == <<v>>

\* ---- aig.Node: the node variants
Input(name) == <<"Input", name>>
LatchIn(name) == <<"LatchIn", name>>
ConstFalse == <<"ConstFalse">>
Inverter(x) == <<"Inverter", x>>
AndGate(l, r) == <<"AndGate", l, r>>

\* ---- aig.AIG: the circuit container
AIG(inputs, node_map, latch_map, latch2init) ==
    [raised |-> FALSE, inputs |-> inputs, node_map |-> node_map,
     latch_map |-> latch_map, latch2init |-> latch2init]

\* the call raised (AssertionError) and returned no circuit
Raised ==
    [raised |-> TRUE, inputs |-> {}, node_map |-> {},
     latch_map |-> {}, latch2init |-> {}]

outputs_of(c) == {p[1] : p \in c.node_map}
latches_of(c) == {p[1] : p \in c.latch_map}
Lookup(pairs, name) == CHOOSE v \in {p[2] : p \in pairs} : <<name, v>> \in pairs

\* the value of a node under an assignment to the inputs and to the latches
RECURSIVE Eval(_, _, _)
Eval(node, ins, lats) ==
    CASE node[1] = "Input" -> ins[node[2]]
      [] node[1] = "LatchIn" -> lats[node[2]]
      [] node[1] = "ConstFalse" -> FALSE
      [] node[1] = "Inverter" -> ~Eval(node[2], ins, lats)
      [] node[1] = "AndGate" -> Eval(node[2], ins, lats) /\ Eval(node[3], ins, lats)

\* node with every Input named in `names` replaced by the node `pairs` gives it
RECURSIVE Subst(_, _, _)
Subst(node, pairs, names) ==
    CASE node[1] = "Input" ->
            IF node[2] \in names THEN Lookup(pairs, node[2]) ELSE node
      [] node[1] = "Inverter" -> Inverter(Subst(node[2], pairs, names))
      [] node[1] = "AndGate" -> AndGate(Subst(node[2], pairs, names),
                                        Subst(node[3], pairs, names))
      [] OTHER -> node

\* A >> B: the outputs of A feed the inputs of B of the same name
seq(A, B) ==
    IF A.raised \/ B.raised THEN Raised
    ELSE LET interface == outputs_of(A) \cap B.inputs
             sub(pairs) == {<<p[1], Subst(p[2], A.node_map, interface)>> : p \in pairs}
         IN IF \/ (outputs_of(A) \ interface) \cap outputs_of(B) # {}
               \/ latches_of(A) \cap latches_of(B) # {}
            THEN Raised
            ELSE AIG(A.inputs \cup (B.inputs \ interface),
                     sub(B.node_map) \cup {p \in A.node_map : p[1] \notin interface},
                     A.latch_map \cup sub(B.latch_map),
                     A.latch2init \cup B.latch2init)

\* A | B: side by side; inputs of the same name are shared
par(A, B) ==
    IF A.raised \/ B.raised THEN Raised
    ELSE IF \/ outputs_of(A) \cap outputs_of(B) # {}
            \/ latches_of(A) \cap latches_of(B) # {}
         THEN Raised
         ELSE AIG(A.inputs \cup B.inputs, A.node_map \cup B.node_map,
                  A.latch_map \cup B.latch_map, A.latch2init \cup B.latch2init)

\* ---- common.py

\* zip(a, b): pairs up to the shorter of the two
zip(a, b) == {<<a[i], b[i]>> : i \in 1..Min(Len(a), Len(b))}

\* A variant of chunks2 that pairs the nodes and drops an unpaired last one.
chunks2_pairs_only(queue) ==
    [i \in 1..(Len(queue) \div 2) |-> SubSeq(queue, 2 * i - 1, 2 * i)]

\* fn.chunks(2, queue)
chunks2(queue) ==
    [i \in 1..((Len(queue) + 1) \div 2) |->
        SubSeq(queue, 2 * i - 1, Min(2 * i, Len(queue)))]

_and(left_right) ==
    IF Len(left_right) = 1 THEN left_right[1]
    ELSE AndGate(left_right[1], left_right[2])

_xor(left_right) ==
    IF Len(left_right) = 1 THEN left_right[1]
    ELSE AndGate(
            Inverter(AndGate(left_right[1], left_right[2])),
            Inverter(AndGate(Inverter(left_right[1]), Inverter(left_right[2]))))

\* the f handed to _map_tree
apply(f, left_right) ==
    IF f = "_and" THEN _and(left_right) ELSE _xor(left_right)

\* while len(queue) > 1: queue = fn.lmap(f, fn.chunks(2, queue))
RECURSIVE map_tree_loop(_, _)
map_tree_loop(queue, f) ==
    IF Len(queue) > 1
    THEN map_tree_loop([i \in DOMAIN chunks2(queue) |-> apply(f, chunks2(queue)[i])], f)
    ELSE queue[1]

_map_tree(inputs, f) ==
    map_tree_loop([i \in DOMAIN inputs |-> Input(inputs[i])], f)

\* the default output name: the hash of the input tuple is left abstract
and_gate(inputs, output) ==
    LET out == IF output = None THEN "#and_output#" ELSE output[1]
    IN AIG(Range(inputs), {<<out, _map_tree(inputs, "_and")>>}, {}, {})

parity_gate(inputs, output) ==
    LET out == IF output = None THEN "#parity#" ELSE output[1]
    IN AIG(Range(inputs), {<<out, _map_tree(inputs, "_xor")>>}, {}, {})

identity(inputs, outputs) ==
    LET outs == IF outputs = None THEN inputs ELSE outputs[1]
    IN AIG(Range(inputs),
           zip(outs, [i \in DOMAIN inputs |-> Input(inputs[i])]), {}, {})

_inverted_input(name) == Inverter(Input(name))

bit_flipper(inputs, outputs) ==
    IF outputs # None /\ Len(outputs[1]) # Len(inputs) THEN Raised
    ELSE LET outs == IF outputs = None THEN inputs ELSE outputs[1]
         IN AIG(Range(inputs),
                zip(outs, [i \in DOMAIN inputs |-> _inverted_input(inputs[i])]),
                {}, {})

or_gate(inputs, output) ==
    LET out == IF output = None THEN "#or_output#" ELSE output[1]
        circ == and_gate(inputs, Some(out))
    IN seq(seq(bit_flipper(inputs, None), circ), bit_flipper(<<out>>, None))

\* A variant of _ite whose true_out is not fed the inverted test.
_ite_test_not_flipped(test, in1, in0, output) ==
    IF Cardinality({test, in0, in1}) # 3 THEN Raised
    ELSE LET true_out == or_gate(<<test, in1>>, Some("true_out"))
             false_out == or_gate(<<test, in0>>, Some("false_out"))
         IN seq(par(true_out, false_out),
                and_gate(<<"true_out", "false_out">>, Some(output)))

\* r"test -> in1 /\ ~test -> in0"
_ite(test, in1, in0, output) ==
    IF Cardinality({test, in0, in1}) # 3 THEN Raised
    ELSE LET true_out == seq(bit_flipper(<<test>>, None),
                             or_gate(<<test, in1>>, Some("true_out")))
             false_out == or_gate(<<test, in0>>, Some("false_out"))
         IN seq(par(true_out, false_out),
                and_gate(<<"true_out", "false_out">>, Some(output)))

\* reduce(op.or_, ites)
RECURSIVE reduce_or(_)
reduce_or(ites) ==
    IF Len(ites) = 1 THEN ites[1]
    ELSE par(reduce_or(Front(ites)), Last(ites))

ite(test, inputs1, inputs0, outputs) ==
    IF Len(inputs1) = 0 THEN Raised
    ELSE IF ~(Len(inputs1) = Len(inputs0) /\ Len(inputs0) = Len(outputs)) THEN Raised
    ELSE IF Cardinality({test} \cup Range(inputs1) \cup Range(inputs0))
                # 2 * Len(inputs0) + 1 THEN Raised
    ELSE reduce_or([i \in DOMAIN inputs1 |->
                        _ite(test, inputs1[i], inputs0[i], outputs[i])])

\* A variant of delay whose outputs are wired to the inputs, not to the latches.
delay_outputs_from_inputs(inputs, initials, latches, outputs) ==
    LET outs == IF outputs = None THEN inputs ELSE outputs[1]
        lats == IF latches = None THEN inputs ELSE latches[1]
    IN IF ~(Len(inputs) = Len(initials) /\ Len(initials) = Len(outs)
                /\ Len(outs) = Len(lats))
       THEN Raised
       ELSE LET _inputs == [i \in DOMAIN inputs |-> Input(inputs[i])]
            IN AIG(Range(inputs), zip(outs, _inputs),
                   zip(lats, _inputs), zip(lats, initials))

delay(inputs, initials, latches, outputs) ==
    LET outs == IF outputs = None THEN inputs ELSE outputs[1]
        lats == IF latches = None THEN inputs ELSE latches[1]
    IN IF ~(Len(inputs) = Len(initials) /\ Len(initials) = Len(outs)
                /\ Len(outs) = Len(lats))
       THEN Raised
       ELSE LET _inputs == [i \in DOMAIN inputs |-> Input(inputs[i])]
                _latches == [i \in DOMAIN lats |-> LatchIn(lats[i])]
            IN AIG(Range(inputs), zip(outs, _latches),
                   zip(lats, _inputs), zip(lats, initials))

\* ---- the calls

Call(f, test, inputs, inputs1, inputs0, initials, latches, outputs) ==
    [f |-> f, test |-> test, inputs |-> inputs, inputs1 |-> inputs1,
     inputs0 |-> inputs0, initials |-> initials, latches |-> latches,
     outputs |-> outputs]

\* and_gate / or_gate / parity_gate on 1..MaxGateInputs inputs
ReduceCalls ==
    {Call(f, "", Names("x", n), <<>>, <<>>, <<>>, None, Some(<<"out">>)) :
        f \in {"and_gate", "or_gate", "parity_gate"}, n \in 1..MaxGateInputs}

\* identity / bit_flipper; the outputs left out, or a list of any length
RenameCalls ==
    {Call(f, "", Names("x", n), <<>>, <<>>, <<>>, None, o) :
        f \in {"identity", "bit_flipper"}, n \in 0..MaxListLen,
        o \in {None} \cup {Some(Names("y", k)) : k \in 0..MaxListLen}}

\* ite; test is a name of its own, or (a contract error) the first of inputs1
IteCalls ==
    {Call("ite", t, <<>>, Names("a", n), Names("b", m), <<>>, None, Some(Names("o", k))) :
        t \in {"t", "a1"}, n \in 0..MaxIteWidth, m \in 0..MaxIteWidth,
        k \in 0..MaxIteWidth}

DelayCalls ==
    {Call("delay", "", Names("x", n), <<>>, <<>>, init, l, o) :
        n \in 0..MaxListLen,
        init \in UNION {[1..k -> BOOLEAN] : k \in 0..MaxListLen},
        l \in {None} \cup {Some(Names("l", k)) : k \in 0..MaxListLen},
        o \in {None} \cup {Some(Names("y", k)) : k \in 0..MaxListLen}}

Calls == ReduceCalls \cup RenameCalls \cup IteCalls \cup DelayCalls

\* the input names of the circuit the call asks for
CallInputs(c) ==
    IF c.f = "ite" THEN {c.test} \cup Range(c.inputs1) \cup Range(c.inputs0)
    ELSE Range(c.inputs)

\* The names env assigns: the inputs of a combinational circuit.  A delay
\* circuit is fed its inputs step by step instead (Simulate).
EnvNames(c) == IF c.f = "delay" THEN {} ELSE CallInputs(c)

Returned(circ) ==
    /\ ret' = circ
    /\ pc' = "returned"
    /\ UNCHANGED <<fn, children, cones, latch_cones, dg_vars, dfs_vars, ts_vars,
                   call, env, latch_val, trace_in, trace_out>>

AndGateCall ==
    /\ pc = "call" /\ call.f = "and_gate"
    /\ Returned(and_gate(call.inputs, Some(call.outputs[1][1])))

OrGateCall ==
    /\ pc = "call" /\ call.f = "or_gate"
    /\ Returned(or_gate(call.inputs, Some(call.outputs[1][1])))

ParityGateCall ==
    /\ pc = "call" /\ call.f = "parity_gate"
    /\ Returned(parity_gate(call.inputs, Some(call.outputs[1][1])))

IdentityCall ==
    /\ pc = "call" /\ call.f = "identity"
    /\ Returned(identity(call.inputs, call.outputs))

BitFlipperCall ==
    /\ pc = "call" /\ call.f = "bit_flipper"
    /\ Returned(bit_flipper(call.inputs, call.outputs))

IteCall ==
    /\ pc = "call" /\ call.f = "ite"
    /\ Returned(ite(call.test, call.inputs1, call.inputs0, call.outputs[1]))

DelayCall ==
    /\ pc = "call" /\ call.f = "delay"
    /\ Returned(delay(call.inputs, call.initials, call.latches, call.outputs))

\* One step of a simulation of the returned sequential circuit: the outputs
\* are read from the values the latches hold, then every latch takes the value
\* of its next-state node.  The latches start from latch2init.
Simulate ==
    /\ pc = "returned" /\ ~ret.raised /\ ret.latch_map # {}
    /\ Len(trace_out) < MaxSteps
    /\ LET held == IF trace_out = <<>>
                   THEN [l \in latches_of(ret) |-> Lookup(ret.latch2init, l)]
                   ELSE latch_val
       IN \E i \in [ret.inputs -> BOOLEAN] :
            /\ trace_in' = Append(trace_in, i)
            /\ trace_out' = Append(trace_out,
                    [o \in outputs_of(ret) |-> Eval(Lookup(ret.node_map, o), i, held)])
            /\ latch_val' = [l \in latches_of(ret) |->
                                Eval(Lookup(ret.latch_map, l), i, held)]
    /\ UNCHANGED <<pc, fn, children, cones, latch_cones, dg_vars, dfs_vars, ts_vars,
                   call, env, ret>>

InitGates ==
    /\ pc = "call"
    /\ fn = "gate"
    /\ call \in Calls
    /\ env \in [EnvNames(call) -> BOOLEAN]
    /\ ret = AIG({}, {}, {}, {})      \* nothing returned yet
    /\ latch_val = <<>> /\ trace_in = <<>> /\ trace_out = <<>>
    /\ children = [n \in Nodes |-> <<>>]
    /\ cones = {} /\ latch_cones = {}
    /\ dg_queue = <<>> /\ deps = <<>> /\ deps_order = <<>> /\ visited = {}
    /\ expanded = [n \in Nodes |-> 0]
    /\ stack = <<>> /\ emitted = {} /\ dfs_out = <<>>
    /\ data = <<>> /\ data_t = <<>> /\ in_deg = <<>>
    /\ ts_queue = <<>> /\ yielded = <<>>

NextGates ==
    \/ AndGateCall
    \/ OrGateCall
    \/ ParityGateCall
    \/ IdentityCall
    \/ BitFlipperCall
    \/ IteCall
    \/ DelayCall
    \/ Simulate

SpecGates == InitGates /\ [][NextGates]_vars

\* ========================================== properties: the gate constructors

\* the value of output `name` of the returned circuit under env
OutputValue(name) == Eval(Lookup(ret.node_map, name), env, <<>>)

\* the input names a node reads
RECURSIVE Support(_)
Support(node) ==
    CASE node[1] = "Input" -> {node[2]}
      [] node[1] = "Inverter" -> Support(node[2])
      [] node[1] = "AndGate" -> Support(node[2]) \cup Support(node[3])
      [] OTHER -> {}

\* the logical reductions of the values env gives the inputs of the call
Conjunction == \A i \in DOMAIN call.inputs : env[call.inputs[i]]
Disjunction == \E i \in DOMAIN call.inputs : env[call.inputs[i]]
Parity == Cardinality({i \in DOMAIN call.inputs : env[call.inputs[i]]}) % 2 = 1

\* the output / latch names a delay call asks for
DelayOutputs == IF call.outputs = None THEN call.inputs ELSE call.outputs[1]
DelayLatches == IF call.latches = None THEN call.inputs ELSE call.latches[1]

\* C4: a circuit built by delay shows, at step 0, initials[i] on outputs[i],
\* and at step t+1 the value fed to inputs[i] at step t; with initials [0]
\* and inputs 1, 0, 1 the outputs at steps 0..3 are 0, 1, 0, 1.
C4_DelaySemantics ==
    (pc = "returned" /\ call.f = "delay" /\ ~ret.raised) =>
        /\ \A t \in DOMAIN trace_out : \A i \in DOMAIN call.inputs :
              trace_out[t][DelayOutputs[i]] =
                 IF t = 1 THEN call.initials[i]
                 ELSE trace_in[t - 1][call.inputs[i]]
        /\ ( /\ call.initials = <<FALSE>> /\ Len(trace_out) = 4
             /\ trace_in[1]["x1"] /\ ~trace_in[2]["x1"] /\ trace_in[3]["x1"] )
           => /\ ~trace_out[1][DelayOutputs[1]] /\ trace_out[2][DelayOutputs[1]]
              /\ ~trace_out[3][DelayOutputs[1]] /\ trace_out[4][DelayOutputs[1]]

\* initials [0] and inputs 1, 0, 1 have been fed and the outputs 0, 1, 0, 1
\* observed at steps 0..3
C4_Witness ==
    /\ pc = "returned" /\ call.f = "delay" /\ ~ret.raised
    /\ call.initials = <<FALSE>> /\ Len(trace_out) = 4
    /\ trace_in[1]["x1"] /\ ~trace_in[2]["x1"] /\ trace_in[3]["x1"]
    /\ ~trace_out[1][DelayOutputs[1]] /\ trace_out[2][DelayOutputs[1]]
    /\ ~trace_out[3][DelayOutputs[1]] /\ trace_out[4][DelayOutputs[1]]

\* a bank of two registers with latch and output names of its own has been
\* stepped to the end, the two inputs differing at the first step
DelayBankReached ==
    /\ pc = "returned" /\ call.f = "delay" /\ ~ret.raised
    /\ Len(call.inputs) = 2 /\ call.latches # None /\ call.outputs # None
    /\ call.initials = <<FALSE, TRUE>>
    /\ Len(trace_out) = MaxSteps
    /\ trace_in[1]["x1"] /\ ~trace_in[1]["x2"]
    /\ trace_out[2]["y1"] /\ ~trace_out[2]["y2"]

\* the names of an ite call are pairwise distinct and its lists as long as
\* each other, and not empty
IteWellFormed ==
    /\ call.f = "ite" /\ call.test = "t"
    /\ Len(call.inputs1) >= 1
    /\ Len(call.inputs1) = Len(call.inputs0)
    /\ Len(call.inputs0) = Len(call.outputs[1])

\* C5: ite with pairwise-distinct names returns a circuit whose output
\* outputs[i] is inputs1[i] when test is 1 and inputs0[i] when test is 0, and
\* reads no input of another bit position.
C5_IteCorrect ==
    (pc = "returned" /\ IteWellFormed) =>
        /\ ~ret.raised
        /\ ret.inputs = CallInputs(call)
        /\ outputs_of(ret) = Range(call.outputs[1])
        /\ Cardinality(ret.node_map) = Len(call.outputs[1])
        /\ \A i \in DOMAIN call.outputs[1] :
              /\ OutputValue(call.outputs[1][i]) =
                    IF env[call.test] THEN env[call.inputs1[i]]
                    ELSE env[call.inputs0[i]]
              /\ Support(Lookup(ret.node_map, call.outputs[1][i]))
                    \subseteq {call.test, call.inputs1[i], call.inputs0[i]}

\* an ite of the largest width has been built; test is 1 and the second bit
\* of inputs1 and inputs0 differ
C5_Witness ==
    /\ pc = "returned" /\ IteWellFormed /\ ~ret.raised
    /\ Len(call.inputs1) = MaxIteWidth
    /\ env["t"] /\ env["a2"] /\ ~env["b2"]
    /\ OutputValue("o2")

\* C6: the single output of and_gate is the conjunction of its inputs, that
\* of or_gate their disjunction and that of parity_gate their XOR, for every
\* number of inputs from 1 up, odd ones included.
C6_GateCorrect ==
    (pc = "returned" /\ call.f \in {"and_gate", "or_gate", "parity_gate"}) =>
        /\ ~ret.raised
        /\ ret.inputs = Range(call.inputs)
        /\ outputs_of(ret) = {"out"}
        /\ Cardinality(ret.node_map) = 1
        /\ call.f = "and_gate" => (OutputValue("out") <=> Conjunction)
        /\ call.f = "or_gate" => (OutputValue("out") <=> Disjunction)
        /\ call.f = "parity_gate" => (OutputValue("out") <=> Parity)
        /\ (call.f \in {"and_gate", "parity_gate"} /\ Len(call.inputs) = 1) =>
                Lookup(ret.node_map, "out") = Input(call.inputs[1])

\* a parity_gate over five inputs, three of them 1, has been built
C6_Witness ==
    /\ pc = "returned" /\ call.f = "parity_gate" /\ ~ret.raised
    /\ Len(call.inputs) = 5
    /\ Cardinality({i \in DOMAIN call.inputs : env[call.inputs[i]]}) = 3
    /\ OutputValue("out")

\* the paired name lists of the call differ in length
LengthMismatch ==
    CASE call.f \in {"identity", "bit_flipper"} ->
            call.outputs # None /\ Len(call.outputs[1]) # Len(call.inputs)
      [] call.f = "ite" ->
            ~(Len(call.inputs1) = Len(call.inputs0)
                /\ Len(call.inputs0) = Len(call.outputs[1]))
      [] call.f = "delay" ->
            ~(Len(call.inputs) = Len(call.initials)
                /\ Len(call.initials) = Len(DelayOutputs)
                /\ Len(DelayOutputs) = Len(DelayLatches))
      [] OTHER -> FALSE

\* C7: identity, bit_flipper, ite and delay, called with paired lists of
\* different lengths, fail at construction and return no circuit.
C7_MismatchRaises ==
    (pc = "returned" /\ LengthMismatch) => ret.raised

\* C7 for the constructors other than identity
C7_MismatchRaisesButIdentity ==
    (pc = "returned" /\ LengthMismatch /\ call.f # "identity") => ret.raised

====
